---- MODULE Spec2Model ----
(***************************************************************************)
(* A model of index.js, the Spine hierarchy generator: the command line,   *)
(* the enumeration of attachment names over both shapes of `skins`, the    *)
(* size lookup, the reduction of the document, and the run of main() over  *)
(* the images directory.                                                   *)
(*                                                                         *)
(* Strings the program inspects character by character (attachment names,  *)
(* object keys, command line tokens, paths) are sequences of one-character *)
(* strings.  A JavaScript number is n + 1/2 when h, and n otherwise, so    *)
(* that a positive size below 1 exists in the model.                       *)
(***************************************************************************)
EXTENDS Integers, Sequences, FiniteSets, TLC

VARIABLES
    argv,        \* process.argv
    disk,        \* what the run finds on disk: the input file and what can fail
    doc,         \* spineJson, the parsed input document
    pc,          \* where main() is
    args,        \* the result of parseArgs
    helpPrinted, \* printHelp() was called
    exitCode,    \* 0, or 1 after process.exit(1)
    outputJson,  \* the reduced document main() holds
    dirReady,    \* ensureDirectoryExists(imagesDir) has run
    cleared,     \* clearImagesDirectory(imagesDir) has run
    fs,          \* the entries of the images directory
    names,       \* attachmentNames
    idx,         \* the next index of the image loop
    created,     \* the counter `created`
    skipped,     \* the counter `skipped`
    failed,      \* the names whose image creation threw, in order
    calls,       \* the calls of createBlankPng: name, path, width, height passed
    written,     \* the content of generated_spine.json, if written
    run,         \* 1 in the first run of the tool, 2 in the second
    first,       \* what the first run left: fs, created, skipped
    faults,      \* what failed in this run: "clear", "image", "size", "json"
    fnName,      \* the name looked up (pure function checks)
    fnOut        \* the result of the function applied (pure function checks)

vars == <<argv, disk, doc, pc, args, helpPrinted, exitCode, outputJson, dirReady,
          cleared, fs, names, idx, created, skipped, failed, calls, written, run,
          first, faults, fnName, fnOut>>

----------------------------------------------------------------------------
(* Sequences and strings *)

Range(s) == {s[i] : i \in 1..Len(s)}

RECURSIVE Dedup(_)
\* new Set() filled in order, then Array.from: first occurrences, in order
Dedup(s) ==
    IF s = <<>> THEN <<>>
    ELSE LET r == Dedup(SubSeq(s, 1, Len(s) - 1))
             x == s[Len(s)]
         IN IF x \in Range(r) THEN r ELSE Append(r, x)

RECURSIVE Flatten(_)
Flatten(ss) == IF ss = <<>> THEN <<>> ELSE Head(ss) \o Flatten(Tail(ss))

Digits == {"0", "1", "2", "3", "4", "5", "6", "7", "8", "9"}

DigitVal(c) ==
    CASE c = "0" -> 0 [] c = "1" -> 1 [] c = "2" -> 2 [] c = "3" -> 3
      [] c = "4" -> 4 [] c = "5" -> 5 [] c = "6" -> 6 [] c = "7" -> 7
      [] c = "8" -> 8 [] c = "9" -> 9

RECURSIVE DecimalValue(_)
DecimalValue(k) ==
    IF k = <<>> THEN 0
    ELSE 10 * DecimalValue(SubSeq(k, 1, Len(k) - 1)) + DigitVal(k[Len(k)])

AllDigits(k) == k # <<>> /\ \A i \in 1..Len(k) : k[i] \in Digits

\* a key that is a canonical array index: enumerated first by for..in
IsArrayIndex(k) == AllDigits(k) /\ (Len(k) > 1 => k[1] # "0")

----------------------------------------------------------------------------
(* JavaScript objects: the own properties in creation order, which for a   *)
(* parsed document is document order                                       *)

HasKey(o, k) == \E i \in 1..Len(o) : o[i].k = k

Get(o, k) == o[CHOOSE i \in 1..Len(o) : o[i].k = k].v

OwnKeys(o) == [i \in 1..Len(o) |-> o[i].k]

RECURSIVE SortIndexKeys(_)
SortIndexKeys(S) ==
    IF S = {} THEN <<>>
    ELSE LET m == CHOOSE x \in S : \A y \in S : DecimalValue(x) <= DecimalValue(y)
         IN <<m>> \o SortIndexKeys(S \ {m})

\* the order of `for (const k in o)`: array-index keys ascending, then the
\* other keys in creation order
ForInKeysIndexFirst(o) ==
    SortIndexKeys({k \in Range(OwnKeys(o)) : IsArrayIndex(k)})
        \o SelectSeq(OwnKeys(o), LAMBDA k : ~IsArrayIndex(k))

ForInKeys(o) == ForInKeysIndexFirst(o)

ForInValues(o) == [i \in 1..Len(o) |-> Get(o, ForInKeys(o)[i])]

----------------------------------------------------------------------------
(* JavaScript values of the fields the program reads *)

Half(n, h) == [n |-> n, h |-> h]
Zero == Half(0, FALSE)
IsPositive(x) == x.n > 0 \/ (x.n = 0 /\ x.h)
IsZero(x) == x.n = 0 /\ ~x.h
BelowOne(x) == x.n < 1
\* Math.max(1, x)
MaxOne(x) == IF BelowOne(x) THEN Half(1, FALSE) ELSE x

Undefined == [t |-> "undefined", n |-> 0, h |-> FALSE, s |-> <<>>]
Null == [t |-> "null", n |-> 0, h |-> FALSE, s |-> <<>>]
NumV(x) == [t |-> "number", n |-> x.n, h |-> x.h, s |-> <<>>]
Whole(n) == NumV(Half(n, FALSE))
StrV(s) == [t |-> "string", n |-> 0, h |-> FALSE, s |-> s]
\* an array of several numbers (vertices): only its being an object matters
ArrV == [t |-> "array", n |-> 0, h |-> FALSE, s |-> <<>>]
NumOf(v) == Half(v.n, v.h)

Truthy(v) ==
    CASE v.t = "number" -> ~IsZero(NumOf(v))
      [] v.t = "string" -> v.s # <<>>
      [] v.t = "array" -> TRUE
      [] OTHER -> FALSE

\* v || d
OrElse(v, d) == IF Truthy(v) THEN v ELSE d

\* Number(v): nan, or the number
ToNumber(v) ==
    CASE v.t = "number" -> [nan |-> FALSE, x |-> NumOf(v)]
      [] v.t = "string" ->
            IF v.s = <<>> THEN [nan |-> FALSE, x |-> Zero]
            ELSE IF AllDigits(v.s)
                 THEN [nan |-> FALSE, x |-> Half(DecimalValue(v.s), FALSE)]
                 ELSE [nan |-> TRUE, x |-> Zero]
      [] v.t = "null" -> [nan |-> FALSE, x |-> Zero]
      [] OTHER -> [nan |-> TRUE, x |-> Zero]

\* Number(v) || 0
NumberOrZero(v) == IF ToNumber(v).nan THEN Zero ELSE ToNumber(v).x

\* o.k of an object: undefined when absent
Field(o, k) == IF HasKey(o, k) THEN Get(o, k) ELSE Undefined

\* an attachment payload: an object with fields, or null
ObjP(f) == [t |-> "object", f |-> f]
NullP == [t |-> "null", f |-> <<>>]

----------------------------------------------------------------------------
(* The document.  doc.skins.kind is "absent", "map" (skin name -> slots)   *)
(* or "list"; an item of a list is wrapped ({name, attachments: slots}) or *)
(* bare (the slots themselves); an item of a map has its key in k.         *)
(* Slots map a slot name to attachments, attachments a name to a payload.  *)

DefaultKey == <<"d", "e", "f", "a", "u", "l", "t">>

\* skin.attachments || skin
AttachmentsRootWrappedOrBare(skin) == skin.v

\* only the wrapped form read: a bare entry yields nothing
AttachmentsRootOnlyWrapped(skin) == IF skin.wrapped THEN skin.v ELSE <<>>

AttachmentsRoot(skin) == AttachmentsRootWrappedOrBare(skin)

\* for (slotName in root) for (attachmentName in slot) names.add(attachmentName)
NamesOfRoot(root) ==
    Flatten([i \in 1..Len(root) |-> ForInKeys(ForInValues(root)[i])])

collectListNames(skins) ==
    Flatten([i \in 1..Len(skins) |-> NamesOfRoot(AttachmentsRoot(skins[i]))])

collectMapNames(skins) ==
    Flatten([i \in 1..Len(skins) |-> NamesOfRoot(ForInValues(skins)[i])])

collectAttachmentNamesAll(spineJson) ==
    IF spineJson.skins.kind = "absent" THEN <<>>
    ELSE IF spineJson.skins.kind = "list"
         THEN Dedup(collectListNames(spineJson.skins.items))
         ELSE Dedup(collectMapNames(spineJson.skins.items))

collectAttachmentNames(spineJson) == collectAttachmentNamesAll(spineJson)

----------------------------------------------------------------------------
(* findAttachmentSize *)

SizeOf(w, h) == [r |-> "size", width |-> w, height |-> h]
NoSize == SizeOf(Zero, Zero)
\* att.width of a null attachment: a TypeError
SizeThrows == [r |-> "throw", width |-> Zero, height |-> Zero]
\* scanAttachmentsRoot found nothing
ScanNull == [r |-> "null", width |-> Zero, height |-> Zero]

\* the body of `if (attName === name)`: the size, a throw, or nothing returned
scanAttachment(att) ==
    IF att.t = "null" THEN SizeThrows
    ELSE LET w == NumberOrZero(Field(att.f, "width"))
             h == NumberOrZero(Field(att.f, "height"))
         IN IF IsPositive(w) /\ IsPositive(h) THEN SizeOf(w, h) ELSE ScanNull

RECURSIVE FirstReturned(_)
\* the first step of a loop that returns or throws ends the loop
FirstReturned(rs) ==
    IF rs = <<>> THEN ScanNull
    ELSE IF Head(rs).r # "null" THEN Head(rs) ELSE FirstReturned(Tail(rs))

RECURSIVE LastReturned(_)
LastReturned(rs) ==
    IF rs = <<>> THEN ScanNull
    ELSE IF rs[Len(rs)].r # "null" THEN rs[Len(rs)]
         ELSE LastReturned(SubSeq(rs, 1, Len(rs) - 1))

scanSlot(slot, name) ==
    FirstReturned([i \in 1..Len(slot) |->
        IF ForInKeys(slot)[i] = name THEN scanAttachment(ForInValues(slot)[i])
        ELSE ScanNull])

scanAttachmentsRoot(attachmentsRoot, name) ==
    FirstReturned([i \in 1..Len(attachmentsRoot) |->
        scanSlot(ForInValues(attachmentsRoot)[i], name)])

SkinScans(json, name) ==
    IF json.skins.kind = "list"
    THEN [i \in 1..Len(json.skins.items) |->
            scanAttachmentsRoot(AttachmentsRoot(json.skins.items[i]), name)]
    ELSE [i \in 1..Len(json.skins.items) |->
            scanAttachmentsRoot(ForInValues(json.skins.items)[i], name)]

findAttachmentSizeFirst(json, name) ==
    IF json.skins.kind = "absent" THEN NoSize
    ELSE LET res == FirstReturned(SkinScans(json, name))
         IN IF res.r = "null" THEN NoSize ELSE res

\* a later match replacing an earlier one
findAttachmentSizeLast(json, name) ==
    IF json.skins.kind = "absent" THEN NoSize
    ELSE LET res == LastReturned(SkinScans(json, name))
         IN IF res.r = "null" THEN NoSize ELSE res

findAttachmentSize(json, name) == findAttachmentSizeFirst(json, name)

----------------------------------------------------------------------------
(* extractMinimalSpineStructure *)

preserveKeys ==
    {"type", "lengths", "vertexCount", "vertices", "uvs", "triangles", "hull",
     "edges", "weights", "path", "end", "closed", "constantSpeed", "color",
     "Path_Portrait", "Path", "Mask"}

shouldPreserveAnyKey(attachmentObject) ==
    /\ attachmentObject.t = "object"
    /\ \E i \in 1..Len(attachmentObject.f) : attachmentObject.f[i].k \in preserveKeys

shouldPreserveAttachmentObject(attachmentObject) ==
    shouldPreserveAnyKey(attachmentObject)

DefaultHash ==
    StrV(<<"A", "N", "D", "A", "z", "G", "2", "K", "B", "F", "V", "q", "e", "V",
           "m", "U", "+", "L", "D", "x", "0", "c", "n", "5", "r", "t", "0">>)
DefaultSpine == StrV(<<"3", ".", "7", ".", "9", "4">>)
DefaultImages == StrV(<<".", "/", "i", "m", "a", "g", "e", "s", "/">>)

\* lines 291-302: the images field is forced whenever it is truthy, and after
\* `|| "./images/"` it always is
reduceSkeletonForced(sk) ==
    LET images == OrElse(Field(sk, "images"), DefaultImages)
    IN << [k |-> "hash", v |-> OrElse(Field(sk, "hash"), DefaultHash)],
          [k |-> "spine", v |-> OrElse(Field(sk, "spine"), DefaultSpine)],
          [k |-> "width", v |-> OrElse(Field(sk, "width"), Whole(0))],
          [k |-> "height", v |-> OrElse(Field(sk, "height"), Whole(0))],
          [k |-> "images", v |-> IF Truthy(images) THEN DefaultImages ELSE images],
          [k |-> "audio", v |-> OrElse(Field(sk, "audio"), StrV(<<>>))] >>

\* the images field copied like the others
reduceSkeletonCopied(sk) ==
    << [k |-> "hash", v |-> OrElse(Field(sk, "hash"), DefaultHash)],
       [k |-> "spine", v |-> OrElse(Field(sk, "spine"), DefaultSpine)],
       [k |-> "width", v |-> OrElse(Field(sk, "width"), Whole(0))],
       [k |-> "height", v |-> OrElse(Field(sk, "height"), Whole(0))],
       [k |-> "images", v |-> OrElse(Field(sk, "images"), DefaultImages)],
       [k |-> "audio", v |-> OrElse(Field(sk, "audio"), StrV(<<>>))] >>

reduceSkeleton(sk) == reduceSkeletonForced(sk)

\* lines 333-342, for a payload that is not null
reduceAttachment(attachment) ==
    IF shouldPreserveAttachmentObject(attachment) THEN attachment
    ELSE ObjP(<< [k |-> "width", v |-> OrElse(Field(attachment.f, "width"), Whole(0))],
                 [k |-> "height", v |-> OrElse(Field(attachment.f, "height"), Whole(0))] >>)

reduceSlot(slot) ==
    [i \in 1..Len(slot) |->
        [k |-> ForInKeys(slot)[i], v |-> reduceAttachment(ForInValues(slot)[i])]]

reduceDefaultSkin(skin) ==
    [i \in 1..Len(skin) |->
        [k |-> ForInKeys(skin)[i], v |-> reduceSlot(ForInValues(skin)[i])]]

\* spineJson.skins && spineJson.skins.default: an array has no `default`
HasDefaultSkin(spineJson) ==
    spineJson.skins.kind = "map" /\ HasKey(spineJson.skins.items, DefaultKey)

\* attachment.width of a null payload that is not preserved: a TypeError
ReduceThrows(spineJson) ==
    /\ HasDefaultSkin(spineJson)
    /\ LET skin == Get(spineJson.skins.items, DefaultKey)
       IN \E i \in 1..Len(skin) : \E j \in 1..Len(skin[i].v) :
              skin[i].v[j].v.t = "null"

extractMinimalSpineStructure(spineJson) ==
    IF ReduceThrows(spineJson)
    THEN [r |-> "throw", hasSkeleton |-> FALSE, skeleton |-> <<>>,
          hasSkins |-> FALSE, default |-> <<>>]
    ELSE [r |-> "ok",
          hasSkeleton |-> spineJson.skeleton.present,
          skeleton |-> IF spineJson.skeleton.present
                       THEN reduceSkeleton(spineJson.skeleton.f) ELSE <<>>,
          hasSkins |-> HasDefaultSkin(spineJson),
          default |-> IF HasDefaultSkin(spineJson)
                      THEN reduceDefaultSkin(Get(spineJson.skins.items, DefaultKey))
                      ELSE <<>>]

----------------------------------------------------------------------------
(* The documents the checks range over: the skins are read attachment by   *)
(* attachment in document order, each attachment going into the slot read  *)
(* last, into a new slot of the skin read last, or into a new skin; keys   *)
(* and payloads are drawn from the given sets.                             *)

KeysOf(o) == {o[i].k : i \in 1..Len(o)}

Last(s) == s[Len(s)]
Front(s) == SubSeq(s, 1, Len(s) - 1)

IntoLastSlot(items, att) ==
    LET skin == Last(items)
        slot == Last(skin.v)
    IN Append(Front(items),
              [skin EXCEPT !.v = Append(Front(skin.v),
                                        [slot EXCEPT !.v = Append(slot.v, att)])])

IntoNewSlot(items, slotKey, att) ==
    LET skin == Last(items)
    IN Append(Front(items),
              [skin EXCEPT !.v = Append(skin.v, [k |-> slotKey, v |-> <<att>>])])

IntoNewSkin(items, skinKey, wrapped, slotKey, att) ==
    Append(items, [k |-> skinKey, wrapped |-> wrapped,
                   v |-> <<[k |-> slotKey, v |-> <<att>>]>>])

OneMore(items, skinKeys, forms, slotKeys, atts) ==
    (IF items = <<>> THEN {}
     ELSE {IntoLastSlot(items, att)
              : att \in {x \in atts : x.k \notin KeysOf(Last(Last(items).v).v)}}
          \cup UNION {{IntoNewSlot(items, key, att) : att \in atts}
                      : key \in slotKeys \ KeysOf(Last(items).v)})
    \cup UNION {UNION {{IntoNewSkin(items, key, w, lk, att) : lk \in slotKeys, att \in atts}
                       : w \in forms}
                : key \in skinKeys \ KeysOf(items)}

Forms(kind) == IF kind = "list" THEN BOOLEAN ELSE {FALSE}

\* the attachments of a document, in document order
AllAtts(d) ==
    Flatten([i \in 1..Len(d.skins.items) |->
                Flatten([j \in 1..Len(d.skins.items[i].v) |-> d.skins.items[i].v[j].v])])

Named(attNames, payloads) == {[k |-> a, v |-> p] : a \in attNames, p \in payloads}

AbsentSkins == [kind |-> "absent", items |-> <<>>]

----------------------------------------------------------------------------
(* Bounds and the sets the inputs are drawn from *)

\* attachments in a document
MaxAtts == 2

EmptyName == <<>>
NameA == <<"a">>
NameB == <<"b">>
SkinKeys == {DefaultKey, <<"0">>}
SlotKeys == {<<"t">>, <<"1">>}

Plain == ObjP(<<>>)
Region(w, h) == ObjP(<< [k |-> "width", v |-> w], [k |-> "height", v |-> h] >>)

NoSkeleton == [present |-> FALSE, f |-> <<>>]

\* the state of a run that has not started, for the checks of one function
NoArgs == [help |-> FALSE, input |-> Null, outDir |-> Null, overwrite |-> FALSE,
           forceVersion |-> Null]
NoOutput == [r |-> "none", hasSkeleton |-> FALSE, skeleton |-> <<>>,
             hasSkins |-> FALSE, default |-> <<>>]
NoFirst == [fs |-> {}, created |-> 0, skipped |-> 0, written |-> NoOutput, faults |-> {}]
NoResult == [op |-> "none"]

EmptySkins == {[kind |-> k, items |-> <<>>] : k \in {"absent", "map", "list"}}

FnStart(name) ==
    /\ doc \in {[skeleton |-> NoSkeleton, skins |-> sk] : sk \in EmptySkins}
    /\ fnName = name
    /\ fnOut = NoResult
    /\ pc = "fn"
    /\ argv = <<>>
    /\ disk = "none"
    /\ args = NoArgs
    /\ helpPrinted = FALSE
    /\ exitCode = 0
    /\ outputJson = NoOutput
    /\ dirReady = FALSE
    /\ cleared = FALSE
    /\ fs = {}
    /\ names = <<>>
    /\ idx = 1
    /\ created = 0
    /\ skipped = 0
    /\ failed = <<>>
    /\ calls = <<>>
    /\ written = NoOutput
    /\ run = 1
    /\ first = NoFirst
    /\ faults = {}

\* JSON.parse reads one more attachment of the input
ReadInto(at, skinKeys, slotKeys, atts) ==
    /\ pc = at
    /\ doc.skins.kind # "absent"
    /\ Len(AllAtts(doc)) < MaxAtts
    /\ \E items \in OneMore(doc.skins.items, skinKeys, Forms(doc.skins.kind), slotKeys, atts) :
          doc' = [doc EXCEPT !.skins.items = items]

FnRead(skinKeys, slotKeys, atts) ==
    /\ ReadInto("fn", skinKeys, slotKeys, atts)
    /\ UNCHANGED <<argv, disk, pc, args, helpPrinted, exitCode, outputJson, dirReady,
                   cleared, fs, names, idx, created, skipped, failed, calls, written,
                   run, first, faults, fnName, fnOut>>

FnDone(out) ==
    /\ pc = "fn"
    /\ pc' = "fnDone"
    /\ fnOut' = out
    /\ UNCHANGED <<argv, disk, doc, args, helpPrinted, exitCode, outputJson, dirReady,
                   cleared, fs, names, idx, created, skipped, failed, calls, written,
                   run, first, faults, fnName>>

----------------------------------------------------------------------------
(* The enumerator applied to list-shaped documents and to the map-shaped   *)
(* document of the same content                                            *)

\* the map-shaped document with the skins, slots and attachments of a
\* list-shaped one: each entry's slots under the entry's name
MapShaped(d) ==
    [d EXCEPT !.skins = [kind |-> "map",
                         items |-> [i \in 1..Len(d.skins.items) |->
                                      [k |-> d.skins.items[i].k, wrapped |-> FALSE,
                                       v |-> d.skins.items[i].v]]]]

EnumInit == FnStart(EmptyName) /\ doc.skins.kind # "map"

EnumRead == FnRead(SkinKeys, SlotKeys, Named({EmptyName, NameA, NameB}, {Plain}))

Enumerate ==
    FnDone([op |-> "collect",
            names |-> collectAttachmentNames(doc),
            mapNames |-> collectAttachmentNames(MapShaped(doc))])

EnumNext == EnumRead \/ Enumerate

SpecEnum == EnumInit /\ [][EnumNext]_vars

\* every attachment name under any slot of any skin
AllNames(d) ==
    {d.skins.items[i].v[j].v[l].k :
        <<i, j, l>> \in {t \in (1..MaxAtts + 1) \X (1..MaxAtts + 1) \X (1..MaxAtts + 1) :
                            /\ t[1] <= Len(d.skins.items)
                            /\ t[2] <= Len(d.skins.items[t[1]].v)
                            /\ t[3] <= Len(d.skins.items[t[1]].v[t[2]].v)}}

\* C2: a list-shaped document yields the name set of the map-shaped document
\* of the same content, each name once, and no skins field yields nothing
ShapeIndependent ==
    pc = "fnDone" =>
        /\ Range(fnOut.names) = Range(fnOut.mapNames)
        /\ Range(fnOut.names) = AllNames(doc)
        /\ Cardinality(Range(fnOut.names)) = Len(fnOut.names)
        /\ (doc.skins.kind = "absent" => fnOut.names = <<>> )

\* a list of a wrapped and a bare entry sharing a name, both enumerated
ShapeIndependentWitness ==
    /\ pc = "fnDone"
    /\ doc.skins.kind = "list"
    /\ Len(doc.skins.items) = 2
    /\ doc.skins.items[1].wrapped /\ ~doc.skins.items[2].wrapped
    /\ Len(fnOut.names) = 1

----------------------------------------------------------------------------
(* findAttachmentSize applied to documents of both shapes *)

SizePayloads ==
    {Region(Whole(10), Whole(20)), Region(Whole(20), Whole(10)),
     Region(Whole(0), Whole(20)), Region(StrV(<<"x">>), Whole(20))}

\* the name looked up with every payload, and another name
SizeAtts == Named({NameA}, SizePayloads) \cup Named({NameB}, {Region(Whole(20), Whole(10))})

SizeInit == FnStart(NameA)

SizeRead == FnRead(SkinKeys, SlotKeys, SizeAtts)

FindSize ==
    FnDone([op |-> "size",
            size |-> findAttachmentSize(doc, fnName),
            again |-> findAttachmentSize(doc, fnName)])

SizeNext == SizeRead \/ FindSize

SpecSize == SizeInit /\ [][SizeNext]_vars

\* the place of property i of object o in the order of for..in: array-index
\* keys by value, then the other keys in document order
EnumerationRank(o, i) ==
    IF IsArrayIndex(o[i].k)
    THEN Cardinality({j \in 1..Len(o) :
            IsArrayIndex(o[j].k) /\ DecimalValue(o[j].k) < DecimalValue(o[i].k)})
    ELSE Cardinality({j \in 1..Len(o) : IsArrayIndex(o[j].k)})
         + Cardinality({j \in 1..i - 1 : ~IsArrayIndex(o[j].k)})

DocumentRank(o, i) == i

\* the slots <<skin, slot>> holding an attachment called name of positive size
PositiveAt(d, name) ==
    {t \in (1..MaxAtts + 1) \X (1..MaxAtts + 1) :
        /\ t[1] <= Len(d.skins.items)
        /\ t[2] <= Len(d.skins.items[t[1]].v)
        /\ HasKey(d.skins.items[t[1]].v[t[2]].v, name)
        /\ LET att == Get(d.skins.items[t[1]].v[t[2]].v, name)
           IN /\ IsPositive(NumberOrZero(Field(att.f, "width")))
              /\ IsPositive(NumberOrZero(Field(att.f, "height")))}

SizeAt(d, name, t) ==
    LET att == Get(d.skins.items[t[1]].v[t[2]].v, name)
    IN SizeOf(NumberOrZero(Field(att.f, "width")), NumberOrZero(Field(att.f, "height")))

\* t comes before u: by skin, then by slot; a list of skins is in list order
Before(d, t, u, Rank(_, _)) ==
    LET skinRank(i) == IF d.skins.kind = "list" THEN i ELSE Rank(d.skins.items, i)
    IN \/ skinRank(t[1]) < skinRank(u[1])
       \/ /\ t[1] = u[1]
          /\ Rank(d.skins.items[t[1]].v, t[2]) < Rank(d.skins.items[t[1]].v, u[2])

FirstPositiveSize(d, name, Rank(_, _)) ==
    IF PositiveAt(d, name) = {} THEN NoSize
    ELSE SizeAt(d, name, CHOOSE t \in PositiveAt(d, name) :
                    \A u \in PositiveAt(d, name) \ {t} : Before(d, t, u, Rank))

\* C3 as stated: the size is that of the first occurrence of positive size in
\* document order, and (0, 0) when there is none
SizeIsFirstInDocumentOrder ==
    pc = "fnDone" =>
        /\ fnOut.size = FirstPositiveSize(doc, fnName, DocumentRank)
        /\ fnOut.again = fnOut.size

\* C3 amended: the size is that of the first occurrence of positive size in the
\* order for..in enumerates skins and slots (array-index keys ascending, then
\* the other keys in document order; a list of skins in list order), (0, 0)
\* when there is none, and a second call returns the same
SizeIsFirstInEnumerationOrder ==
    pc = "fnDone" =>
        /\ fnOut.size = FirstPositiveSize(doc, fnName, EnumerationRank)
        /\ fnOut.again = fnOut.size

\* two occurrences of positive size in two skins, the one written second
\* enumerated first and returned
SizeWitness ==
    /\ pc = "fnDone"
    /\ doc.skins.kind = "map"
    /\ Cardinality(PositiveAt(doc, fnName)) = 2
    /\ Len(doc.skins.items) = 2
    /\ fnOut.size = SizeAt(doc, fnName, <<2, 1>>)
    /\ fnOut.size # SizeAt(doc, fnName, <<1, 1>>)

----------------------------------------------------------------------------
(* extractMinimalSpineStructure applied to documents of both shapes *)

MeshName == <<"m", "e", "s", "h">>

ReducePayloads ==
    {Plain,
     Region(Whole(10), Whole(20)),
     ObjP(<< [k |-> "x", v |-> Whole(5)], [k |-> "width", v |-> StrV(<<"w">>)] >>),
     ObjP(<< [k |-> "type", v |-> StrV(MeshName)], [k |-> "vertices", v |-> ArrV],
             [k |-> "width", v |-> Whole(10)] >>),
     ObjP(<< [k |-> "width", v |-> Whole(10)], [k |-> "Mask", v |-> StrV(<<"m">>)] >>)}

ReduceInit == FnStart(EmptyName)

ReduceRead == FnRead(SkinKeys, SlotKeys, Named({NameA, NameB}, ReducePayloads))

Reduce == FnDone([op |-> "reduce", reduced |-> extractMinimalSpineStructure(doc)])

ReduceNext == ReduceRead \/ Reduce

SpecReduce == ReduceInit /\ [][ReduceNext]_vars

\* the skins of the input called `default`: the value under that key of a map,
\* the entries of that name of a list
DefaultSkins(d) ==
    {d.skins.items[i].v : i \in {j \in 1..Len(d.skins.items) :
        /\ d.skins.items[j].k = DefaultKey
        /\ d.skins.kind = "list" => d.skins.items[j].wrapped}}

RecognizedKeys ==
    {"type", "lengths", "vertexCount", "vertices", "uvs", "triangles", "hull",
     "edges", "weights", "path", "end", "closed", "constantSpeed", "color",
     "Path_Portrait", "Path", "Mask"}

\* what the reduced document is to hold for a payload
Classified(att) ==
    IF KeysOf(att.f) \cap RecognizedKeys # {} THEN att
    ELSE Region(OrElse(Field(att.f, "width"), Whole(0)),
                OrElse(Field(att.f, "height"), Whole(0)))

\* the reduced document holds skins.default.<slot>.<name> for exactly the
\* attachments of the given skins, each classified
HoldsExactly(reduced, skins) ==
    /\ \A skin \in skins : \A i \in 1..Len(skin) : \A j \in 1..Len(skin[i].v) :
          /\ reduced.hasSkins
          /\ HasKey(reduced.default, skin[i].k)
          /\ HasKey(Get(reduced.default, skin[i].k), skin[i].v[j].k)
          /\ Get(Get(reduced.default, skin[i].k), skin[i].v[j].k) = Classified(skin[i].v[j].v)
    /\ \A i \in 1..Len(reduced.default) : \A j \in 1..Len(reduced.default[i].v) :
          \E skin \in skins :
              /\ HasKey(skin, reduced.default[i].k)
              /\ HasKey(Get(skin, reduced.default[i].k), reduced.default[i].v[j].k)

\* C4: every attachment of the input's default skin, in a list or in a map, is
\* in the reduced document, verbatim iff it has a recognized key and else as
\* {width, height}; no attachment of another skin is
ReductionComplete ==
    pc = "fnDone" => HoldsExactly(fnOut.reduced, DefaultSkins(doc))

\* the same of map-shaped documents only
ReductionCompleteOfMaps ==
    (pc = "fnDone" /\ doc.skins.kind = "map") =>
        HoldsExactly(fnOut.reduced, DefaultSkins(doc))

----------------------------------------------------------------------------
(* parseArgs *)

TokHelp == {<<"-", "h">>, <<"-", "-", "h", "e", "l", "p">>}
TokInput == {<<"-", "i">>, <<"-", "-", "i", "n", "p", "u", "t">>}
TokOut == {<<"-", "o">>, <<"-", "-", "o", "u", "t">>}
TokVersion == {<<"-", "v">>, <<"-", "-", "f", "o", "r", "c", "e", "-", "v", "e", "r", "s", "i", "o", "n">>}
TokOverwrite == {<<"-", "-", "o", "v", "e", "r", "w", "r", "i", "t", "e">>, <<"o", "v", "e", "r", "w", "r", "i", "t", "e">>}

\* argv[i + 1] is there and truthy
Follows(av, i) == i + 1 <= Len(av) /\ av[i + 1] # <<>>

StartsWithDash(token) == token # <<>> /\ token[1] = "-"

RECURSIVE parseLoop(_, _, _, _)
\* the loop of lines 14-42 from index i on (argv[1] and argv[2] are node and
\* the script)
parseLoop(av, i, a, positional) ==
    IF i > Len(av) THEN [args |-> a, positional |-> positional]
    ELSE LET token == av[i]
         IN IF token \in TokHelp
               THEN parseLoop(av, i + 1, [a EXCEPT !.help = TRUE], positional)
            ELSE IF token \in TokInput /\ Follows(av, i)
               THEN parseLoop(av, i + 2, [a EXCEPT !.input = StrV(av[i + 1])], positional)
            ELSE IF token \in TokOut /\ Follows(av, i)
               THEN parseLoop(av, i + 2, [a EXCEPT !.outDir = StrV(av[i + 1])], positional)
            ELSE IF token \in TokVersion /\ Follows(av, i)
               THEN parseLoop(av, i + 2, [a EXCEPT !.forceVersion = StrV(av[i + 1])],
                              positional)
            ELSE IF token \in TokOverwrite
               THEN parseLoop(av, i + 1, [a EXCEPT !.overwrite = TRUE], positional)
            ELSE IF ~StartsWithDash(token)
               THEN parseLoop(av, i + 1, a, Append(positional, token))
            ELSE parseLoop(av, i + 1, a, positional)

\* lines 43-51: a positional fills an option still falsy
Positional(value, positional, n) ==
    IF ~Truthy(value) /\ Len(positional) >= n THEN StrV(positional[n]) ELSE value

parseArgs(av) ==
    LET p == parseLoop(av, 3, NoArgs, <<>>)
    IN [help |-> p.args.help,
        input |-> Positional(p.args.input, p.positional, 1),
        outDir |-> Positional(p.args.outDir, p.positional, 2),
        overwrite |-> p.args.overwrite,
        forceVersion |-> Positional(p.args.forceVersion, p.positional, 3)]

----------------------------------------------------------------------------
(* File names and the images directory *)

Reserved == {"<", ">", ":", "\"", "/", "\\", "|", "?", "*"}

sanitizeReplacesReserved(name) ==
    [i \in 1..Len(name) |-> IF name[i] \in Reserved THEN "_" ELSE name[i]]

sanitizeFilename(name) == sanitizeReplacesReserved(name)

\* imagesField.replace(/\\/g, "/")
NormalizeSlashes(s) == [i \in 1..Len(s) |-> IF s[i] = "\\" THEN "/" ELSE s[i]]

\* line 399: args.outDir || (spineJson.skeleton && spineJson.skeleton.images) || "./images/"
imagesField(a, spineJson) ==
    OrElse(a.outDir,
           OrElse(IF spineJson.skeleton.present
                  THEN Field(spineJson.skeleton.f, "images") ELSE Undefined,
                  DefaultImages))

normalizedImagesField(a, spineJson) == NormalizeSlashes(imagesField(a, spineJson).s)

\* lines 483-485
imagesFieldOut(a, spineJson) ==
    LET n == normalizedImagesField(a, spineJson)
    IN IF n # <<>> /\ n[Len(n)] = "/" THEN n ELSE Append(n, "/")

\* an entry of the images directory: the name before the extension, the
\* extension, file or directory, and for an image this program wrote the
\* attachment name it was written for and its width and height
Entry(base, ext, kind) ==
    [base |-> base, ext |-> ext, kind |-> kind, by |-> <<"?">>, w |-> Zero, h |-> Zero]

ImageExts == {"png", "jpg", "jpeg"}

\* the files clearImagesDirectory unlinks
Clearable(dir) == {e \in dir : e.kind = "file" /\ e.ext \in ImageExts}

\* fs.existsSync(outPath)
Exists(dir, base) == \E e \in dir : e.base = base /\ e.ext = "png"

IsDirectory(dir, base) == \E e \in dir : e.base = base /\ e.ext = "png" /\ e.kind = "dir"

\* lines 159-160: Math.max(1, Number(x) || 1)
clampToOne(x) == MaxOne(IF IsZero(x) THEN Half(1, FALSE) ELSE x)

clampDimension(x) == clampToOne(x)

\* createBlankPng(outPath, w, h) resolved: the file is there, of the clamped size
WriteImage(dir, base, name, w, h) ==
    {e \in dir : ~(e.base = base /\ e.ext = "png")}
        \cup {[base |-> base, ext |-> "png", kind |-> "file", by |-> name,
               w |-> clampDimension(w), h |-> clampDimension(h)]}

FallbackSize == 2

\* lines 462-463: size.width > 0 ? size.width : 2
placeholderWithFallback(x) == IF IsPositive(x) THEN x ELSE Half(FallbackSize, FALSE)

placeholderAsFound(x) == x

placeholderDimension(x) == placeholderWithFallback(x)

\* `if (!attachmentName) continue`
isFalsyEmpty(name) == name = <<>>

isFalsyNever(name) == FALSE

isFalsyName(name) == isFalsyEmpty(name)

----------------------------------------------------------------------------
(* The inputs of a run *)

Node == <<"n", "o", "d", "e">>
Script == <<"i", "n", "d", "e", "x", ".", "j", "s">>
InFile == <<"i", "n">>
OutPlain == <<"o", "u", "t">>
OutBackslash == <<"o", "\\">>
Version == <<"4", ".", "3">>

Cmd(tokens) == <<Node, Script>> \o tokens

\* the command lines under which the image loop is explored
LoopArgvs == {Cmd(<<InFile>>), Cmd(<<InFile, <<"-", "-", "o", "v", "e", "r", "w", "r", "i", "t", "e">>>>)}

AllArgvs ==
    LoopArgvs \cup
    {Cmd(<<>>), Cmd(<<<<"-", "h">>>>), Cmd(<<<<"-", "-", "h", "e", "l", "p">>, InFile>>), Cmd(<<InFile, <<"-", "h">>>>),
     Cmd(<<<<"-", "i">>, InFile>>), Cmd(<<<<"-", "i">>, <<"-", "h">>>>), Cmd(<<InFile, <<"o", "v", "e", "r", "w", "r", "i", "t", "e">>>>),
     Cmd(<<InFile, OutPlain>>), Cmd(<<<<"-", "-", "i", "n", "p", "u", "t">>, InFile, <<"-", "o">>, OutBackslash>>),
     Cmd(<<InFile, <<"-", "v">>, Version>>), Cmd(<<InFile, OutPlain, Version>>),
     Cmd(<<InFile, <<"-", "o">>>>)}

Skeletons ==
    {NoSkeleton,
     [present |-> TRUE, f |-> <<>>],
     [present |-> TRUE,
      f |-> << [k |-> "hash", v |-> StrV(<<"h">>)], [k |-> "spine", v |-> StrV(<<"4", ".", "1">>)],
               [k |-> "width", v |-> Whole(100)], [k |-> "height", v |-> Whole(50)],
               [k |-> "images", v |-> StrV(<<"a", "r", "t", "/">>)], [k |-> "audio", v |-> StrV(<<"s">>)] >>],
     [present |-> TRUE,
      f |-> << [k |-> "spine", v |-> StrV(<<>>)], [k |-> "width", v |-> Whole(0)],
               [k |-> "images", v |-> StrV(<<>>)] >>]}

\* the input file: missing, not JSON, readable; "nomkdir": readable, and the
\* images directory cannot be made
Disks == {"missing", "garbled", "ok", "nomkdir"}

Stale == <<"a", "_">>

InitialDirs ==
    {{},
     {Entry(Stale, "png", "file"), Entry(<<"n", "o", "t", "e", "s">>, "txt", "file"),
      Entry(NameB, "png", "dir"), Entry(<<"o", "l", "d">>, "jpg", "file")}}

HalfRegion == Region(NumV(Half(0, TRUE)), NumV(Half(0, TRUE)))

RunAtts ==
    {[k |-> EmptyName, v |-> Plain],
     [k |-> <<"a", "/">>, v |-> Region(Whole(10), Whole(20))],
     [k |-> <<"a", "/">>, v |-> HalfRegion],
     [k |-> <<"a", "_">>, v |-> Plain],
     [k |-> <<"a", "_">>, v |-> NullP],
     [k |-> NameB, v |-> Plain]}

RunSlotKeys == {<<"t">>}

\* every command line, input file and skeleton with an empty images
\* directory, and under the loop's command lines every images directory
RunInit ==
    /\ \/ /\ argv \in AllArgvs
          /\ disk \in Disks
          /\ doc \in {[skeleton |-> sk, skins |-> s] : sk \in Skeletons, s \in EmptySkins}
          /\ fs = {}
       \/ /\ argv \in LoopArgvs
          /\ disk = "ok"
          /\ doc \in {[skeleton |-> NoSkeleton, skins |-> s] : s \in EmptySkins}
          /\ fs \in InitialDirs
    /\ pc = "start"
    /\ args = NoArgs
    /\ helpPrinted = FALSE
    /\ exitCode = 0
    /\ outputJson = NoOutput
    /\ dirReady = FALSE
    /\ cleared = FALSE
    /\ names = <<>>
    /\ idx = 1
    /\ created = 0
    /\ skipped = 0
    /\ failed = <<>>
    /\ calls = <<>>
    /\ written = NoOutput
    /\ run = 1
    /\ first = NoFirst
    /\ faults = {}
    /\ fnName = EmptyName
    /\ fnOut = NoResult

\* the input document has one more attachment
RunRead ==
    /\ run = 1
    /\ argv \in LoopArgvs
    /\ disk = "ok"
    /\ ~doc.skeleton.present
    /\ ReadInto("start", SkinKeys, RunSlotKeys, RunAtts)
    /\ UNCHANGED <<argv, disk, pc, args, helpPrinted, exitCode, outputJson, dirReady,
                   cleared, fs, names, idx, created, skipped, failed, calls, written,
                   run, first, faults, fnName, fnOut>>

----------------------------------------------------------------------------
(* main *)

\* lines 77-100: every image file is unlinked but those whose unlink fails
\* (all of them when the directory cannot be read)
clearRemoves(dir, survivors) == (dir \ Clearable(dir)) \cup survivors

clearKeepsAll(dir, survivors) == dir

clearImagesDirectory(dir, survivors) == clearRemoves(dir, survivors)

SetField(o, k, v) ==
    IF HasKey(o, k)
    THEN [i \in 1..Len(o) |-> IF o[i].k = k THEN [k |-> k, v |-> v] ELSE o[i]]
    ELSE Append(o, [k |-> k, v |-> v])

\* lines 477-486: the document as written
finalDocument(out, a, spineJson) ==
    LET sk0 == IF out.hasSkeleton THEN out.skeleton ELSE <<>>
        sk1 == IF Truthy(a.forceVersion) THEN SetField(sk0, "spine", a.forceVersion)
               ELSE sk0
        sk2 == IF Truthy(a.outDir)
               THEN SetField(sk1, "images", StrV(imagesFieldOut(a, spineJson)))
               ELSE sk1
    IN [out EXCEPT !.hasSkeleton = TRUE, !.skeleton = sk2]

\* lines 372-376 with no input path: the usage, and return
Usage ==
    /\ pc = "start"
    /\ ~Truthy(parseArgs(argv).input)
    /\ args' = parseArgs(argv)
    /\ helpPrinted' = TRUE
    /\ pc' = "done"
    /\ UNCHANGED <<argv, disk, doc, exitCode, outputJson, dirReady, cleared, fs, names,
                   idx, created, skipped, failed, calls, written, run, first, faults,
                   fnName, fnOut>>

\* a run that ends in process.exit(1) before the images directory is touched
Exits(out) ==
    /\ pc = "start"
    /\ Truthy(parseArgs(argv).input)
    /\ args' = parseArgs(argv)
    /\ helpPrinted' = parseArgs(argv).help
    /\ outputJson' = out
    /\ exitCode' = 1
    /\ pc' = "exit"
    /\ UNCHANGED <<argv, disk, doc, dirReady, cleared, fs, names, idx, created, skipped,
                   failed, calls, written, run, first, faults, fnName, fnOut>>

\* lines 379-382
InputMissing == disk = "missing" /\ Exits(NoOutput)

\* lines 385-391
ParseFails == disk = "garbled" /\ Exits(NoOutput)

\* line 394 throwing, caught at line 494
ExtractThrows ==
    /\ disk \in {"ok", "nomkdir"}
    /\ ReduceThrows(doc)
    /\ Exits(NoOutput)

\* line 402 throwing, caught at line 494
MkdirFails ==
    /\ disk = "nomkdir"
    /\ ~ReduceThrows(doc)
    /\ Exits(extractMinimalSpineStructure(doc))

\* lines 372-416: the document reduced, the directory made and cleared, the
\* names collected
Prepare ==
    /\ pc = "start"
    /\ Truthy(parseArgs(argv).input)
    /\ disk = "ok"
    /\ ~ReduceThrows(doc)
    /\ args' = parseArgs(argv)
    /\ helpPrinted' = parseArgs(argv).help
    /\ outputJson' = extractMinimalSpineStructure(doc)
    /\ dirReady' = TRUE
    /\ cleared' = TRUE
    /\ \E survivors \in SUBSET Clearable(fs) :
          /\ fs' = clearImagesDirectory(fs, survivors)
          /\ faults' = IF survivors = {} THEN {} ELSE {"clear"}
    /\ names' = collectAttachmentNames(doc)
    /\ idx' = 1
    /\ created' = 0
    /\ skipped' = 0
    /\ pc' = "loop"
    /\ UNCHANGED <<argv, disk, doc, exitCode, failed, calls, written, run, first,
                   fnName, fnOut>>

InLoop == pc = "loop" /\ idx <= Len(names)

outBase == sanitizeFilename(names[idx])

\* line 451
SkipEmpty ==
    /\ InLoop
    /\ isFalsyName(names[idx])
    /\ idx' = idx + 1
    /\ UNCHANGED <<argv, disk, doc, pc, args, helpPrinted, exitCode, outputJson,
                   dirReady, cleared, fs, names, created, skipped, failed, calls,
                   written, run, first, faults, fnName, fnOut>>

\* lines 455-458
SkipExisting ==
    /\ InLoop
    /\ ~isFalsyName(names[idx])
    /\ Exists(fs, outBase) /\ ~args.overwrite
    /\ skipped' = skipped + 1
    /\ idx' = idx + 1
    /\ UNCHANGED <<argv, disk, doc, pc, args, helpPrinted, exitCode, outputJson,
                   dirReady, cleared, fs, names, created, failed, calls, written, run,
                   first, faults, fnName, fnOut>>

\* the try block is entered
Attempts ==
    /\ InLoop
    /\ ~isFalsyName(names[idx])
    /\ ~(Exists(fs, outBase) /\ ~args.overwrite)

TheCall ==
    LET size == findAttachmentSize(doc, names[idx])
    IN [name |-> names[idx], base |-> outBase,
        w |-> placeholderDimension(size.width), h |-> placeholderDimension(size.height)]

\* line 461 throwing, caught at line 466
SizeFailsCaught ==
    /\ Attempts
    /\ findAttachmentSize(doc, names[idx]).r = "throw"
    /\ failed' = Append(failed, names[idx])
    /\ faults' = faults \cup {"size"}
    /\ idx' = idx + 1
    /\ UNCHANGED <<argv, disk, doc, pc, args, helpPrinted, exitCode, outputJson,
                   dirReady, cleared, fs, names, created, skipped, calls, written, run,
                   first, fnName, fnOut>>

SizeFails == SizeFailsCaught

\* lines 461-465
CreateImage ==
    /\ Attempts
    /\ findAttachmentSize(doc, names[idx]).r = "size"
    /\ ~IsDirectory(fs, outBase)
    /\ calls' = Append(calls, TheCall)
    /\ fs' = WriteImage(fs, outBase, names[idx], TheCall.w, TheCall.h)
    /\ created' = created + 1
    /\ idx' = idx + 1
    /\ UNCHANGED <<argv, disk, doc, pc, args, helpPrinted, exitCode, outputJson,
                   dirReady, cleared, names, skipped, failed, written, run, first,
                   faults, fnName, fnOut>>

\* line 464 rejecting (the write fails; it always does onto a directory),
\* caught at line 466: the loop goes on
WriteFailsCaught ==
    /\ Attempts
    /\ findAttachmentSize(doc, names[idx]).r = "size"
    /\ calls' = Append(calls, TheCall)
    /\ failed' = Append(failed, names[idx])
    /\ faults' = faults \cup {"image"}
    /\ idx' = idx + 1
    /\ UNCHANGED <<argv, disk, doc, pc, args, helpPrinted, exitCode, outputJson,
                   dirReady, cleared, fs, names, created, skipped, written, run, first,
                   fnName, fnOut>>

\* the failure not caught: the run ends at line 494
WriteFailsAborts ==
    /\ Attempts
    /\ findAttachmentSize(doc, names[idx]).r = "size"
    /\ calls' = Append(calls, TheCall)
    /\ failed' = Append(failed, names[idx])
    /\ faults' = faults \cup {"image"}
    /\ exitCode' = 1
    /\ pc' = "exit"
    /\ UNCHANGED <<argv, disk, doc, args, helpPrinted, outputJson, dirReady, cleared,
                   fs, names, idx, created, skipped, written, run, first, fnName, fnOut>>

WriteFails == WriteFailsCaught

\* lines 475-488
WriteJson ==
    /\ pc = "loop" /\ idx > Len(names)
    /\ written' = finalDocument(outputJson, args, doc)
    /\ pc' = "done"
    /\ UNCHANGED <<argv, disk, doc, args, helpPrinted, exitCode, outputJson, dirReady,
                   cleared, fs, names, idx, created, skipped, failed, calls, run, first,
                   faults, fnName, fnOut>>

\* line 487 throwing, caught at line 489
WriteJsonFails ==
    /\ pc = "loop" /\ idx > Len(names)
    /\ faults' = faults \cup {"json"}
    /\ pc' = "done"
    /\ UNCHANGED <<argv, disk, doc, args, helpPrinted, exitCode, outputJson, dirReady,
                   cleared, fs, names, idx, created, skipped, failed, calls, written,
                   run, first, fnName, fnOut>>

\* the tool is run again on the same input and images directory, without
\* --overwrite, after a first run in which nothing failed
Again ==
    /\ pc = "done"
    /\ run = 1
    /\ faults = {}
    /\ ~args.overwrite
    /\ run' = 2
    /\ first' = [fs |-> fs, created |-> created, skipped |-> skipped,
                 written |-> written, faults |-> faults]
    /\ pc' = "start"
    /\ args' = NoArgs
    /\ helpPrinted' = FALSE
    /\ outputJson' = NoOutput
    /\ dirReady' = FALSE
    /\ cleared' = FALSE
    /\ names' = <<>>
    /\ idx' = 1
    /\ created' = 0
    /\ skipped' = 0
    /\ failed' = <<>>
    /\ calls' = <<>>
    /\ written' = NoOutput
    /\ faults' = {}
    /\ UNCHANGED <<argv, disk, doc, exitCode, fs, fnName, fnOut>>

Next ==
    \/ RunRead
    \/ Usage
    \/ InputMissing
    \/ ParseFails
    \/ ExtractThrows
    \/ MkdirFails
    \/ Prepare
    \/ SkipEmpty
    \/ SkipExisting
    \/ SizeFails
    \/ CreateImage
    \/ WriteFails
    \/ WriteJson
    \/ WriteJsonFails
    \/ Again

Spec == RunInit /\ [][Next]_vars

----------------------------------------------------------------------------
(* Properties of a run *)

NonEmptyNames == {n \in Range(names) : n # <<>>}

\* the run went through the image loop and ended
RunEnded == pc = "done" /\ Truthy(args.input)

Images(dir) == {e \in dir : e.ext = "png" /\ e.kind = "file"}

Directories(dir) == {e \in dir : e.kind = "dir"}

\* two names of the run share a file name
SharedFile ==
    \E m, n \in NonEmptyNames : m # n /\ sanitizeFilename(m) = sanitizeFilename(n)

\* the second of two runs without overwrite in which nothing failed has ended
SecondRunEnded ==
    /\ run = 2
    /\ RunEnded
    /\ ~args.overwrite
    /\ faults = {}
    /\ first.faults = {}

\* C1 as stated: after the second run the files are those after the first,
\* and the second run created nothing and skipped every name
SecondRunSkipsAll ==
    SecondRunEnded =>
        /\ fs = first.fs
        /\ created = 0
        /\ skipped = Cardinality(NonEmptyNames)

\* C1 amended: after the second run the files are those after the first; the
\* second run clears the images of the first and repeats it, with the same
\* counts of created and skipped, and where no two names share a file name and
\* no directory stands in the way it creates every image and skips none
SecondRunRepeatsFirst ==
    SecondRunEnded =>
        /\ fs = first.fs
        /\ written = first.written
        /\ created = first.created
        /\ skipped = first.skipped
        /\ (~SharedFile /\ Directories(fs) = {}) =>
              (created = Cardinality(NonEmptyNames) /\ skipped = 0)

SecondRunWitness == SecondRunEnded /\ created = 2 /\ Cardinality(Images(fs)) = 2

\* C5: after a run in which nothing failed the directory holds one image for
\* each non-empty name, written for that name and named after it, and no name
\* was skipped
OneImagePerName ==
    (RunEnded /\ faults = {} /\ Directories(fs) = {}) =>
        /\ Cardinality(Images(fs)) = Cardinality(NonEmptyNames)
        /\ \A n \in NonEmptyNames :
              \E e \in Images(fs) : e.base = sanitizeFilename(n) /\ e.by = n
        /\ skipped = 0

\* the same of runs whose names have file names of their own
OneImagePerFileName ==
    (RunEnded /\ faults = {} /\ Directories(fs) = {} /\ ~SharedFile) =>
        /\ Cardinality(Images(fs)) = Cardinality(NonEmptyNames)
        /\ \A n \in NonEmptyNames :
              \E e \in Images(fs) : e.base = sanitizeFilename(n) /\ e.by = n
        /\ skipped = 0

\* C6: a failed image is caught and counted neither as created nor as
\* skipped, the names after it are processed, and the reduced document is
\* written after the loop: created + skipped + failed is the number of
\* non-empty names passed, at every step and at the end
FailureTolerated ==
    /\ pc = "loop" =>
          created + skipped + Len(failed)
              = Cardinality({i \in 1..idx - 1 : names[i] # <<>>})
    /\ RunEnded =>
          /\ created + skipped + Len(failed) = Cardinality(NonEmptyNames)
          /\ written.r = "ok" \/ "json" \in faults
    /\ pc = "exit" => failed = <<>>

\* a name failed, a later name got its image, and the document was written
FailureToleratedWitness ==
    /\ RunEnded
    /\ written.r = "ok"
    /\ \E i, j \in 1..Len(names) :
          /\ i < j
          /\ names[i] \in Range(failed)
          /\ \E e \in Images(fs) : e.by = names[j]

HelpAmong(av) == \E i \in 3..Len(av) : av[i] \in TokHelp

\* C7: with -h or --help among the arguments the run prints the usage and
\* ends without error, the images directory neither made nor cleared, no
\* image generated, no document written
HelpEndsRun ==
    (HelpAmong(argv) /\ pc # "start") =>
        /\ helpPrinted
        /\ exitCode = 0
        /\ ~dirReady /\ ~cleared
        /\ calls = <<>>
        /\ written.r = "none"

\* the attachments called n
Occurrences(n) == SelectSeq(AllAtts(doc), LAMBDA a : a.k = n)

Asked(c) ==
    LET size == findAttachmentSize(doc, c.name)
    IN /\ c.w = (IF IsPositive(size.width) THEN size.width ELSE Half(2, FALSE))
       /\ c.h = (IF IsPositive(size.height) THEN size.height ELSE Half(2, FALSE))

\* a name whose one attachment is {width: 10, height: 20} has a 10 by 20 image
TenByTwenty ==
    \A e \in Images(fs) :
        Occurrences(e.by) = <<[k |-> e.by, v |-> Region(Whole(10), Whole(20))]>>
            => (e.w = Half(10, FALSE) /\ e.h = Half(20, FALSE))

\* the latest call of the generator; every call is the latest in the state
\* that follows it
LastCall == calls[Len(calls)]

\* C8 as stated: the generator is asked for the size found, or for 2 by 2
\* when none is, and never for a width or height below 1
AskedAtLeastOne ==
    /\ calls # <<>> =>
          Asked(LastCall) /\ ~BelowOne(LastCall.w) /\ ~BelowOne(LastCall.h)
    /\ TenByTwenty

\* C8 amended: the generator is asked for the size found, or for 2 by 2 when
\* none is, so never for a width or height that is not positive; a positive
\* one below 1 is passed on, and the image written is never below 1 either way
AskedPositive ==
    /\ calls # <<>> =>
          Asked(LastCall) /\ IsPositive(LastCall.w) /\ IsPositive(LastCall.h)
    /\ \A e \in Images(fs) : e.by # <<"?">> => (~BelowOne(e.w) /\ ~BelowOne(e.h))
    /\ TenByTwenty

\* asked for a half by a half, the generator wrote 1 by 1
AskedPositiveWitness ==
    \E i \in 1..Len(calls) :
        /\ BelowOne(calls[i].w)
        /\ \E e \in Images(fs) : e.by = calls[i].name /\ e.w = Half(1, FALSE)

\* the enumerator has run
Enumerated == pc \in {"loop", "done"} /\ Truthy(args.input)

\* C9 as stated: every name the enumerator returns is non-empty, and no
\* image is generated for an empty name
NamesNonEmpty ==
    /\ Enumerated => \A i \in 1..Len(names) : names[i] # <<>>
    /\ \A i \in 1..Len(calls) : calls[i].name # <<>>
    /\ \A e \in fs : e.by # <<>>

\* C9 amended: no image is generated for an empty name; the enumerator
\* returns the empty name exactly when an attachment of the document has it
NoImageForEmptyName ==
    /\ Enumerated => (<<>> \in Range(names) <=> <<>> \in AllNames(doc))
    /\ \A i \in 1..Len(calls) : calls[i].name # <<>>
    /\ \A e \in fs : e.by # <<>>

\* the empty name enumerated and passed over, another name's image created
NoImageForEmptyNameWitness ==
    /\ RunEnded
    /\ names # <<>> /\ names[1] = <<>>
    /\ created = 1

SkeletonDefaults ==
    [hash |-> DefaultHash, spine |-> DefaultSpine, width |-> Whole(0),
     height |-> Whole(0), audio |-> StrV(<<>>)]

\* the skeleton of the reduced document follows the input's
ReducedSkeletonFollows(out) ==
    /\ out.hasSkeleton = doc.skeleton.present
    /\ doc.skeleton.present =>
          /\ KeysOf(out.skeleton) = DOMAIN SkeletonDefaults \cup {"images"}
          /\ \A k \in DOMAIN SkeletonDefaults :
                Field(out.skeleton, k)
                    = (IF Truthy(Field(doc.skeleton.f, k)) THEN Field(doc.skeleton.f, k)
                       ELSE SkeletonDefaults[k])
          /\ Field(out.skeleton, "images") = DefaultImages

\* the images field of the document written is './images/' unless an output
\* directory was given
ImagesReplacedByOutDirOnly ==
    (written.r = "ok" /\ HasKey(written.skeleton, "images")
        /\ Field(written.skeleton, "images") # DefaultImages) => Truthy(args.outDir)

\* C10 as stated: no skeleton in the input, none in the reduced document,
\* neither as reduced nor as written; a skeleton in the input, its fields or
\* the defaults, and images './images/' unless an output directory was given
SkeletonOmitted ==
    /\ Enumerated => ReducedSkeletonFollows(outputJson)
    /\ written.r = "ok" => written.hasSkeleton = doc.skeleton.present
    /\ ImagesReplacedByOutDirOnly

\* C10 amended: the same of the document as reduced; the document as written
\* always has a skeleton, which main adds when the input has none: empty but
\* for the version forced and the images directory given
SkeletonAddedOnWrite ==
    /\ Enumerated => ReducedSkeletonFollows(outputJson)
    /\ written.r = "ok" =>
          /\ written.hasSkeleton
          /\ ~doc.skeleton.present =>
                KeysOf(written.skeleton)
                    = {k \in {"spine"} : Truthy(args.forceVersion)}
                      \cup {k \in {"images"} : Truthy(args.outDir)}
          /\ doc.skeleton.present =>
                /\ KeysOf(written.skeleton) = KeysOf(outputJson.skeleton)
                /\ \A k \in DOMAIN SkeletonDefaults \ {"spine"} :
                      Field(written.skeleton, k) = Field(outputJson.skeleton, k)
          /\ Truthy(args.forceVersion) =>
                Field(written.skeleton, "spine") = args.forceVersion
          /\ Truthy(args.outDir) =>
                LET im == Field(written.skeleton, "images").s
                IN im # <<>> /\ im[Len(im)] = "/" /\ "\\" \notin Range(im)
    /\ ImagesReplacedByOutDirOnly

\* a skeleton whose images field is not './images/' reduced and written
SkeletonWitness ==
    /\ written.r = "ok"
    /\ doc.skeleton.present
    /\ Truthy(Field(doc.skeleton.f, "images"))
    /\ Field(doc.skeleton.f, "images") # DefaultImages
    /\ Field(written.skeleton, "images") = DefaultImages
    /\ Field(written.skeleton, "width") = Whole(100)

====
